---- MODULE Spec2Model ----
(***************************************************************************)
(* Change-notification layer of antigravity-agent.                         *)
(*                                                                         *)
(* Two listener implementations exist side by side in the sources:         *)
(*   "store" : useDbMonitoringStore (module-level globalUnlistenFn and an  *)
(*             EventEmitter that fans notifications out to consumers),     *)
(*   "hook"  : useDatabaseListener + useDatabaseStore (unlistenFn and      *)
(*             isListening kept in a zustand store).                       *)
(*                                                                         *)
(* The JavaScript event loop is modelled explicitly: a step runs one       *)
(* synchronous stretch of code up to the next await.  A continuation that  *)
(* awaits an already settled promise is appended to the microtask queue    *)
(* (microq); completions of backend calls are macrotasks and therefore     *)
(* only run when the microtask queue is empty.                             *)
(***************************************************************************)
EXTENDS Integers, Sequences, FiniteSets, TLC

\* ---------------------------------------------------------------- bounds
MaxTasks == 3       \* asynchronous calls issued in one behaviour
MaxHandles == 2     \* addListener calls issued in one behaviour
MaxUnregCalls == 2  \* calls of one unsubscribe closure
MaxPushes == 1      \* notifications pushed by the backend in one behaviour
MaxNotifs == 5      \* notifications handed to the hook's handler
MaxTime == 8        \* clock horizon of the timer model, in 50 ms units
MaxBrowses == 3     \* paths picked in one behaviour of a path dialog
FrameCalls == 2     \* calls issued in one behaviour of SpecFrame
FrameHandles == 1   \* addListener calls in one behaviour of SpecFrame

None == 0           \* null / no handle
Callbacks == {1, 2} \* identities of the consumer callback functions
Kinds == {"data", "exec"}   \* the two paths a path dialog configures
Paths == {1, 2}             \* paths the user can pick in the file dialog
ValidPaths == {1}           \* those the backend's validation accepts
RefreshDelayMs == 300   \* setTimeout delay in the hook's handleDatabaseChange
DelayTicks == RefreshDelayMs \div 50

VARIABLES
    impl,             \* which implementation is exercised: store, hook, dialog
    channel,          \* live registrations on the 'database-changed' channel
    nextReg,          \* id the next successful listen() will return
    unlistenCalls,    \* unlistenCalls[r]: times the UnlistenFn of r was invoked
    globalUnlistenFn, \* store: module-level handle (None or a registration)
    unlistenFn,       \* hook: useDatabaseStore.unlistenFn
    isListening,      \* hook: useDatabaseStore.isListening
    tasks,            \* the asynchronous calls and where each is suspended
    nextTask,         \* slot the next call will occupy
    microq,           \* microtask queue: tasks whose awaited promise is settled
    listeners,        \* EventEmitter listener array for DATA_CHANGED
    handles,          \* unsubscribe closures returned by addListener
    lastEmit,         \* callbacks invoked, in order, by one emit of the last push
    lastThrew,        \* did that emit throw out of the channel handler
    handlerRuns,      \* channel handlers run by the last push
    lastSnapshot,     \* listener array at the moment of the last push
    pushCount,        \* notifications pushed so far
    persisted,        \* backend: the durably stored monitoring flag
    dbMonitoringEnabled,   \* store: useDbMonitoringStore.dbMonitoringEnabled
    isDbMonitoringEnabled, \* dialog: BusinessSettingsDialog state
    messageType,      \* dialog: kind of the message shown
    now,              \* clock of the timer model
    timers,           \* deadlines of the pending setTimeout calls
    notifTimes,       \* times at which the hook's handler was invoked
    refreshTimes,     \* times at which refreshBackupList was called
    mounted,          \* the component using useAutoDatabaseListener
    isInitialized,    \* useAutoDatabaseListener: useState(false)
    isAutoRefreshEnabled,  \* hook: useDatabaseStore.isAutoRefreshEnabled
    effectDeps,       \* dependency values of the effect that last ran
    visibilityLog,    \* last message logged by handleVisibilityChange
    pathOf,           \* path dialogs: dataPath / execPath (newDataPath, ...)
    pathValid,        \* path dialogs: isDataPathValid / isExecPathValid
    pathValidating,   \* setup dialog: isValidatingData / isValidatingExec
    isSaving,         \* path dialogs: isSaving
    validations,      \* validatePath / validateExecutable calls in flight
    saveJob,          \* the handleSave in flight and the values it captured
    saved,            \* backend: paths persisted by savePath / saveExecutable
    validatedTrue,    \* paths for which a validation has returned true
    selected,         \* onPathSelected / onClose has been called
    browses           \* paths picked so far

subVars == <<channel, nextReg, unlistenCalls, globalUnlistenFn, unlistenFn,
             isListening>>
taskVars == <<tasks, nextTask, microq>>
busVars == <<listeners, handles>>
pushVars == <<lastEmit, lastThrew, handlerRuns, lastSnapshot, pushCount>>
toggleVars == <<persisted, dbMonitoringEnabled, isDbMonitoringEnabled,
                messageType>>
timeVars == <<now, timers, notifTimes, refreshTimes>>
autoVars == <<mounted, isInitialized, isAutoRefreshEnabled, effectDeps,
              visibilityLog>>
pathVars == <<pathOf, pathValid, pathValidating, isSaving, validations,
              saveJob, saved, validatedTrue, selected, browses>>
vars == <<impl, subVars, taskVars, busVars, pushVars, toggleVars, timeVars,
          autoVars, pathVars>>

\* ------------------------------------------------------------ task records
\* op: the call; pc: where it is suspended; phase: whether the record is
\* running stopListening or startListening; reg: the registration whose
\* UnlistenFn is awaited, or the one listen() returned; h0: the handle stored
\* when the call was made; arg: the flag passed or loaded; res: the backend's
\* answer; outcome: how the call's promise settled; ovl: a setEnabled call
\* was still awaiting the backend when this one was made; ures, lres: how the
\* latest awaited UnlistenFn and listen() settled; fault: one of them was
\* rejected; ret: the value the call's promise resolved with.
\* No handleSave in flight.
IdleJob == [pc |-> "idle", data |-> None, exec |-> None]

IdleTask == [op |-> "none", pc |-> "idle", reg |-> None, phase |-> "none",
             h0 |-> None, arg |-> FALSE, res |-> "none",
             outcome |-> "pending", ovl |-> FALSE, ures |-> "none",
             lres |-> "none", fault |-> FALSE, ret |-> "none",
             arm |-> "none"]

NewTask(op, phase, h) == [IdleTask EXCEPT !.op = op, !.pc = "called",
                                          !.phase = phase, !.h0 = h]

\* The handle the running implementation stores.
Handle == IF impl = "store" THEN globalUnlistenFn ELSE unlistenFn

\* Slots of the task table: the effects of useAutoDatabaseListener issue one
\* call more than the callers of the other specifications.
Slots == 1..(MaxTasks + 1)

Live(t) == tasks[t].pc \notin {"idle", "done"}
InFlight == {t \in Slots : Live(t)}

\* ---------------------------------------------------------------- cleanup
\* Synchronous part of cleanup(): read the handle; if there is one, invoke it
\* and suspend on the backend call, else return (the caller's await of the
\* already resolved promise goes through the microtask queue).
CleanupPcUnguarded == "cl_wait"

CleanupPc == IF Handle # None THEN "cl_wait" ELSE "cl_ret"

BeginCleanup(t, rec, q) ==
    /\ tasks' = [tasks EXCEPT ![t] = [rec EXCEPT !.pc = CleanupPc,
                                                 !.reg = Handle]]
    /\ IF Handle # None
       THEN /\ unlistenCalls' = [unlistenCalls EXCEPT ![Handle] = @ + 1]
            /\ microq' = q
       ELSE /\ unlistenCalls' = unlistenCalls
            /\ microq' = Append(q, t)

\* set({ unlistenFn: null, isListening: false }) / globalUnlistenFn = null
ClearHandle ==
    IF impl = "store"
    THEN globalUnlistenFn' = None /\ UNCHANGED <<unlistenFn, isListening>>
    ELSE unlistenFn' = None /\ isListening' = FALSE
         /\ UNCHANGED globalUnlistenFn

UnlistenResolveDropsListeners(t) ==
    /\ tasks[t].pc = "cl_wait"
    /\ microq = <<>>
    /\ channel' = channel \ {tasks[t].reg}
    /\ ClearHandle
    /\ tasks' = [tasks EXCEPT ![t].pc = "cl_ret", ![t].ures = "ok"]
    /\ microq' = <<t>>
    /\ listeners' = <<>>
    /\ UNCHANGED <<impl, nextReg, unlistenCalls, nextTask, handles>>
    /\ UNCHANGED <<pushVars, toggleVars, timeVars, autoVars, pathVars>>

\* The awaited UnlistenFn resolved: the registration is gone, the handle is
\* cleared (whatever it holds by now) and cleanup() returns.
UnlistenResolve(t) ==
    /\ tasks[t].pc = "cl_wait"
    /\ microq = <<>>
    /\ channel' = channel \ {tasks[t].reg}
    /\ ClearHandle
    /\ tasks' = [tasks EXCEPT ![t].pc = "cl_ret", ![t].ures = "ok"]
    /\ microq' = <<t>>
    /\ UNCHANGED <<impl, nextReg, unlistenCalls, nextTask>>
    /\ UNCHANGED <<busVars, pushVars, toggleVars, timeVars, autoVars, pathVars>>

UnlistenRejectClears(t) ==
    /\ tasks[t].pc = "cl_wait"
    /\ microq = <<>>
    /\ ClearHandle
    /\ tasks' = [tasks EXCEPT ![t].pc = "cl_ret", ![t].ures = "err",
                              ![t].fault = TRUE]
    /\ microq' = <<t>>
    /\ UNCHANGED <<impl, nextTask, channel, nextReg, unlistenCalls>>
    /\ UNCHANGED <<busVars, pushVars, toggleVars, timeVars, autoVars, pathVars>>

\* The awaited UnlistenFn rejected: cleanup() logs and leaves the handle (and
\* the registration the backend failed to remove).
UnlistenReject(t) ==
    /\ tasks[t].pc = "cl_wait"
    /\ microq = <<>>
    /\ tasks' = [tasks EXCEPT ![t].pc = "cl_ret", ![t].ures = "err",
                              ![t].fault = TRUE]
    /\ microq' = <<t>>
    /\ UNCHANGED <<impl, nextTask, subVars>>
    /\ UNCHANGED <<busVars, pushVars, toggleVars, timeVars, autoVars, pathVars>>

\* ------------------------------------------------------------------ calls
\* startListening(): its synchronous part is the call of cleanup().
CallStartListening ==
    /\ impl \in {"store", "hook"}
    /\ nextTask <= MaxTasks
    /\ BeginCleanup(nextTask, NewTask("start", "start", Handle), microq)
    /\ nextTask' = nextTask + 1
    /\ UNCHANGED <<impl, channel, nextReg, globalUnlistenFn, unlistenFn,
                   isListening>>
    /\ UNCHANGED <<busVars, pushVars, toggleVars, timeVars, autoVars, pathVars>>

\* stopListening(): its synchronous part is the call of cleanup().
CallStopListening ==
    /\ impl \in {"store", "hook"}
    /\ nextTask <= MaxTasks
    /\ BeginCleanup(nextTask, NewTask("stop", "stop", Handle), microq)
    /\ nextTask' = nextTask + 1
    /\ UNCHANGED <<impl, channel, nextReg, globalUnlistenFn, unlistenFn,
                   isListening>>
    /\ UNCHANGED <<busVars, pushVars, toggleVars, timeVars, autoVars, pathVars>>

\* restartListening exists in the hook only: await stop, then await start.
CallRestartListening ==
    /\ impl = "hook"
    /\ nextTask <= MaxTasks
    /\ BeginCleanup(nextTask, NewTask("restart", "stop", Handle), microq)
    /\ nextTask' = nextTask + 1
    /\ UNCHANGED <<impl, channel, nextReg, globalUnlistenFn, unlistenFn,
                   isListening>>
    /\ UNCHANGED <<busVars, pushVars, toggleVars, timeVars, autoVars, pathVars>>

\* ------------------------------------------------------------- microtasks
\* startListening resumes after `await cleanup()`: it calls listen().
StartAfterCleanup ==
    /\ microq # <<>>
    /\ LET t == Head(microq) IN
        /\ tasks[t].pc = "cl_ret"
        /\ tasks[t].phase = "start"
        /\ tasks' = [tasks EXCEPT ![t].pc = "ls_wait"]
    /\ microq' = Tail(microq)
    /\ UNCHANGED <<impl, nextTask, subVars>>
    /\ UNCHANGED <<busVars, pushVars, toggleVars, timeVars, autoVars, pathVars>>

\* The value the hook's stopListening passes to setListening.
StopListeningFlag == FALSE

\* stopListening resumes after `await cleanup()`: the hook calls
\* setListening(false); inside restartListening the caller's await of the
\* stop promise is the next microtask.
StopAfterCleanup ==
    /\ microq # <<>>
    /\ LET t == Head(microq) IN
        /\ tasks[t].pc = "cl_ret"
        /\ tasks[t].phase = "stop"
        /\ IF tasks[t].op = "restart"
           THEN /\ tasks' = [tasks EXCEPT ![t].pc = "mid"]
                /\ microq' = Append(Tail(microq), t)
           ELSE /\ tasks' = [tasks EXCEPT ![t].pc = "done",
                                          ![t].outcome = "resolved"]
                /\ microq' = Tail(microq)
    /\ isListening' = IF impl = "hook" THEN StopListeningFlag ELSE isListening
    /\ UNCHANGED <<impl, nextTask, channel, nextReg, unlistenCalls,
                   globalUnlistenFn, unlistenFn>>
    /\ UNCHANGED <<busVars, pushVars, toggleVars, timeVars, autoVars, pathVars>>

\* restartListening resumes after `await stopListening()`: it calls
\* startListening, whose synchronous part is cleanup() again.
RestartAfterStop ==
    /\ microq # <<>>
    /\ LET t == Head(microq) IN
        /\ tasks[t].pc = "mid"
        /\ BeginCleanup(t, [tasks[t] EXCEPT !.phase = "start"], Tail(microq))
    /\ UNCHANGED <<impl, nextTask, channel, nextReg, globalUnlistenFn,
                   unlistenFn, isListening>>
    /\ UNCHANGED <<busVars, pushVars, toggleVars, timeVars, autoVars, pathVars>>

\* ----------------------------------------------------------------- listen
ListenHandleKeepOld == IF Handle # None THEN Handle ELSE nextReg

\* The handle startListening stores: the UnlistenFn listen() returned.
ListenHandle == nextReg

\* The store's startListening sends invoke('start_database_monitoring') right
\* after listen() resolved and does not await it; the hook's does not send it.
ArmAfterListen(a) == IF impl = "store" THEN "sent" ELSE a

\* listen() resolved with a new UnlistenFn: the handler is registered on the
\* channel and the handle is stored.
ListenResolve(t) ==
    /\ tasks[t].pc = "ls_wait"
    /\ microq = <<>>
    /\ channel' = channel \cup {nextReg}
    /\ unlistenCalls' = Append(unlistenCalls, 0)
    /\ nextReg' = nextReg + 1
    /\ IF impl = "store"
       THEN globalUnlistenFn' = ListenHandle
            /\ UNCHANGED <<unlistenFn, isListening>>
       ELSE unlistenFn' = ListenHandle /\ isListening' = TRUE
            /\ UNCHANGED globalUnlistenFn
    /\ tasks' = [tasks EXCEPT ![t].pc = "done", ![t].reg = nextReg,
                              ![t].lres = "ok", ![t].outcome = "resolved",
                              ![t].arm = ArmAfterListen(@)]
    /\ UNCHANGED <<impl, nextTask, microq>>
    /\ UNCHANGED <<busVars, pushVars, toggleVars, timeVars, autoVars, pathVars>>

StartFailureRethrown == "rejected"

\* How startListening's promise settles when listen() was rejected: the catch
\* logs and does not rethrow.
StartFailureOutcome == "resolved"

\* listen() rejected: startListening logs; the hook calls setListening(false).
ListenReject(t) ==
    /\ tasks[t].pc = "ls_wait"
    /\ microq = <<>>
    /\ isListening' = IF impl = "hook" THEN FALSE ELSE isListening
    /\ tasks' = [tasks EXCEPT ![t].pc = "done", ![t].reg = None,
                              ![t].lres = "err", ![t].fault = TRUE,
                              ![t].outcome = StartFailureOutcome]
    /\ UNCHANGED <<impl, nextTask, microq, channel, nextReg, unlistenCalls,
                   globalUnlistenFn, unlistenFn>>
    /\ UNCHANGED <<busVars, pushVars, toggleVars, timeVars, autoVars, pathVars>>

\* The store's invoke('start_database_monitoring') resolved; nobody waits.
ArmResolve(t) ==
    /\ impl = "store"
    /\ tasks[t].arm = "sent"
    /\ microq = <<>>
    /\ tasks' = [tasks EXCEPT ![t].arm = "ok"]
    /\ UNCHANGED <<impl, nextTask, microq, subVars>>
    /\ UNCHANGED <<busVars, pushVars, toggleVars, timeVars, autoVars, pathVars>>

\* The store's invoke('start_database_monitoring') rejected: the promise has
\* no handler, the rejection is reported as unhandled.
ArmReject(t) ==
    /\ impl = "store"
    /\ tasks[t].arm = "sent"
    /\ microq = <<>>
    /\ tasks' = [tasks EXCEPT ![t].arm = "unhandled"]
    /\ UNCHANGED <<impl, nextTask, microq, subVars>>
    /\ UNCHANGED <<busVars, pushVars, toggleVars, timeVars, autoVars, pathVars>>

\* -------------------------------------------------------------- event bus
Range(s) == {s[i] : i \in 1..Len(s)}

\* EventEmitter.removeListener: drop the LAST occurrence of the function, or
\* nothing when it is not in the array.
RemoveLast(s, x) ==
    IF x \notin Range(s) THEN s
    ELSE LET i == CHOOSE k \in 1..Len(s) :
                     /\ s[k] = x
                     /\ \A j \in (k + 1)..Len(s) : s[j] # x
         IN SubSeq(s, 1, i - 1) \o SubSeq(s, i + 1, Len(s))

\* addListener(event, cb): databaseEventEmitter.on, and a closure over cb.
AddListener(cb) ==
    /\ impl = "store"
    /\ Len(handles) < MaxHandles
    /\ listeners' = Append(listeners, cb)
    /\ handles' = Append(handles, [cb |-> cb, unregCalls |-> 0])
    /\ UNCHANGED <<impl, subVars, taskVars, pushVars, toggleVars, timeVars, autoVars,
                   pathVars>>

\* The closure returned by addListener: databaseEventEmitter.off(event, cb).
Unregister(h) ==
    /\ impl = "store"
    /\ h \in 1..Len(handles)
    /\ handles[h].unregCalls < MaxUnregCalls
    /\ listeners' = RemoveLast(listeners, handles[h].cb)
    /\ handles' = [handles EXCEPT ![h].unregCalls = @ + 1]
    /\ UNCHANGED <<impl, subVars, taskVars, pushVars, toggleVars, timeVars, autoVars,
                   pathVars>>

\* EventEmitter.emit over a copy of the listener array: the callbacks are
\* called in order, and the first one that throws ends the loop.
EmitRun(ls, throwers) ==
    IF \E i \in 1..Len(ls) : ls[i] \in throwers
    THEN LET i == CHOOSE k \in 1..Len(ls) :
                     /\ ls[k] \in throwers
                     /\ \A j \in 1..(k - 1) : ls[j] \notin throwers
         IN SubSeq(ls, 1, i)
    ELSE ls

\* The backend pushes one notification: every live registration runs its
\* handler.  The store's handler emits on the EventEmitter; `throwers` are the
\* callbacks that throw on this notification.
BackendPush(throwers) ==
    /\ impl \in {"store", "hook"}
    /\ microq = <<>>
    /\ pushCount < MaxPushes
    /\ pushCount' = pushCount + 1
    /\ handlerRuns' = Cardinality(channel)
    /\ lastSnapshot' = listeners
    /\ IF impl = "store" /\ channel # {}
       THEN /\ lastEmit' = EmitRun(listeners, throwers)
            /\ lastThrew' = (\E i \in 1..Len(listeners) :
                                listeners[i] \in throwers)
       ELSE /\ lastEmit' = <<>>
            /\ lastThrew' = FALSE
    /\ UNCHANGED <<impl, subVars, taskVars, busVars, toggleVars, timeVars, autoVars,
                   pathVars>>

\* What a consumer callback may do to the bus while it is being invoked:
\* nothing, addListener(cb), or call an unsubscribe closure.
ReentrantOps ==
    {<<"none", 0>>} \cup {<<"add", cb>> : cb \in Callbacks}
                    \cup {<<"unreg", h>> : h \in 1..MaxHandles}

\* The bus (listener array and closures) after one such operation.
ApplyOp(op, bus) ==
    IF op[1] = "add" /\ Len(bus.hs) < MaxHandles
    THEN [ls |-> Append(bus.ls, op[2]),
          hs |-> Append(bus.hs, [cb |-> op[2], unregCalls |-> 0])]
    ELSE IF /\ op[1] = "unreg"
            /\ op[2] \in 1..Len(bus.hs)
            /\ bus.hs[op[2]].unregCalls < MaxUnregCalls
    THEN [ls |-> RemoveLast(bus.ls, bus.hs[op[2]].cb),
          hs |-> [bus.hs EXCEPT ![op[2]].unregCalls = @ + 1]]
    ELSE bus

\* EventEmitter.emit: the loop runs over `snap`, the copy of the listener
\* array taken when emit was entered; callback snap[i] performs script[snap[i]]
\* on the live bus and, when it is a thrower, throws out of emit.
RECURSIVE EmitLoop(_, _, _, _, _)
EmitLoop(snap, i, bus, throwers, script) ==
    IF i > Len(snap)
    THEN [bus |-> bus, called |-> <<>>, threw |-> FALSE]
    ELSE LET b1 == ApplyOp(script[snap[i]], bus) IN
         IF snap[i] \in throwers
         THEN [bus |-> b1, called |-> <<snap[i]>>, threw |-> TRUE]
         ELSE LET r == EmitLoop(snap, i + 1, b1, throwers, script) IN
              [bus |-> r.bus, called |-> <<snap[i]>> \o r.called,
               threw |-> r.threw]

\* One notification runs the channel handler of each of the k live
\* registrations; each handler calls emit on the listener array of its time.
RECURSIVE RunHandlers(_, _, _, _)
RunHandlers(k, bus, throwers, script) ==
    IF k = 0
    THEN [bus |-> bus, called |-> <<>>, threw |-> FALSE]
    ELSE LET e == EmitLoop(bus.ls, 1, bus, throwers, script)
             r == RunHandlers(k - 1, e.bus, throwers, script)
         IN [bus |-> r.bus, called |-> e.called \o r.called,
             threw |-> e.threw \/ r.threw]

\* The backend pushes one notification to the store while consumer callbacks
\* register and unregister from inside their invocation.
ReentrantPush(throwers, script) ==
    /\ impl = "store"
    /\ microq = <<>>
    /\ pushCount < MaxPushes
    /\ pushCount' = pushCount + 1
    /\ handlerRuns' = Cardinality(channel)
    /\ lastSnapshot' = listeners
    /\ LET r == RunHandlers(Cardinality(channel),
                            [ls |-> listeners, hs |-> handles],
                            throwers, script)
       IN /\ lastEmit' = r.called
          /\ lastThrew' = r.threw
          /\ listeners' = r.bus.ls
          /\ handles' = r.bus.hs
    /\ UNCHANGED <<impl, subVars, taskVars, toggleVars, timeVars, autoVars, pathVars>>

\* ----------------------------------------------------------------- toggle
SetInFlight == \E u \in 1..MaxTasks : /\ tasks[u].op = "set"
                                      /\ tasks[u].pc \in {"sv_sent", "sv_resp"}

\* setDbMonitoringEnabled(e): invoke('set_db_monitoring_enabled') is sent.
CallSetDbMonitoringEnabled(e) ==
    /\ impl = "store"
    /\ nextTask <= MaxTasks
    /\ tasks' = [tasks EXCEPT ![nextTask] =
                    [IdleTask EXCEPT !.op = "set", !.pc = "sv_sent",
                                     !.arg = e, !.ovl = SetInFlight]]
    /\ nextTask' = nextTask + 1
    /\ UNCHANGED <<impl, microq, subVars, busVars, pushVars, toggleVars,
                   timeVars, autoVars, pathVars>>

\* toggleDbMonitoring(): setDbMonitoringEnabled(!dbMonitoringEnabled).
CallToggleDbMonitoring ==
    /\ impl = "store"
    /\ nextTask <= MaxTasks
    /\ tasks' = [tasks EXCEPT ![nextTask] =
                    [IdleTask EXCEPT !.op = "set", !.pc = "sv_sent",
                                     !.arg = ~dbMonitoringEnabled,
                                     !.ovl = SetInFlight]]
    /\ nextTask' = nextTask + 1
    /\ UNCHANGED <<impl, microq, subVars, busVars, pushVars, toggleVars,
                   timeVars, autoVars, pathVars>>

\* handleDbMonitoringToggle(e) of the settings dialog:
\* invoke('save_db_monitoring_state') is sent.
CallHandleDbMonitoringToggle(e) ==
    /\ impl = "dialog"
    /\ nextTask <= MaxTasks
    /\ tasks' = [tasks EXCEPT ![nextTask] =
                    [IdleTask EXCEPT !.op = "dialog", !.pc = "sv_sent",
                                     !.arg = e]]
    /\ nextTask' = nextTask + 1
    /\ UNCHANGED <<impl, microq, subVars, busVars, pushVars, toggleVars,
                   timeVars, autoVars, pathVars>>

\* The backend processes a save: it stores the flag, or fails.
BackendSave(t, ok) ==
    /\ tasks[t].pc = "sv_sent"
    /\ tasks' = [tasks EXCEPT ![t].pc = "sv_resp",
                              ![t].res = IF ok THEN "ok" ELSE "err"]
    /\ persisted' = IF ok THEN tasks[t].arg ELSE persisted
    /\ UNCHANGED <<impl, nextTask, microq, subVars, busVars, pushVars,
                   dbMonitoringEnabled, isDbMonitoringEnabled, messageType,
                   timeVars, autoVars, pathVars>>

EnabledAfterSaveOptimistic(t) == tasks[t].arg

\* The flag setDbMonitoringEnabled stores once its invoke has settled.
EnabledAfterSave(t) ==
    IF tasks[t].res = "ok" THEN tasks[t].arg ELSE dbMonitoringEnabled

\* setDbMonitoringEnabled resumes after its invoke.  Resolved: stopListening()
\* is called (not awaited) when disabling, then the flag is set.  Rejected:
\* the error is logged and rethrown.
SaveResponse(t) ==
    /\ tasks[t].op = "set"
    /\ tasks[t].pc = "sv_resp"
    /\ microq = <<>>
    /\ dbMonitoringEnabled' = EnabledAfterSave(t)
    /\ IF tasks[t].res = "ok"
       THEN IF ~tasks[t].arg
            THEN BeginCleanup(t, [tasks[t] EXCEPT !.phase = "stop",
                                                  !.h0 = Handle,
                                                  !.outcome = "resolved"],
                              microq)
            ELSE /\ tasks' = [tasks EXCEPT ![t].pc = "done",
                                           ![t].outcome = "resolved"]
                 /\ UNCHANGED <<unlistenCalls, microq>>
       ELSE /\ tasks' = [tasks EXCEPT ![t].pc = "done",
                                      ![t].outcome = "rejected"]
            /\ UNCHANGED <<unlistenCalls, microq>>
    /\ UNCHANGED <<impl, nextTask, channel, nextReg, globalUnlistenFn,
                   unlistenFn, isListening, busVars, pushVars, persisted,
                   isDbMonitoringEnabled, messageType, timeVars, autoVars,
                   pathVars>>

\* handleDbMonitoringToggle resumes after its invoke: the dialog state and a
\* success message, or an error message and the state left alone.
DialogSaveResponse(t) ==
    /\ tasks[t].op = "dialog"
    /\ tasks[t].pc = "sv_resp"
    /\ microq = <<>>
    /\ IF tasks[t].res = "ok"
       THEN /\ isDbMonitoringEnabled' = tasks[t].arg
            /\ messageType' = "success"
       ELSE /\ isDbMonitoringEnabled' = isDbMonitoringEnabled
            /\ messageType' = "error"
    /\ tasks' = [tasks EXCEPT ![t].pc = "done", ![t].outcome = "resolved"]
    /\ UNCHANGED <<impl, nextTask, microq, subVars, busVars, pushVars,
                   persisted, dbMonitoringEnabled, timeVars, autoVars,
                   pathVars>>

\* loadSettings(): invoke('is_db_monitoring_enabled') is sent.
CallLoadSettings ==
    /\ impl = "store"
    /\ nextTask <= MaxTasks
    /\ tasks' = [tasks EXCEPT ![nextTask] =
                    [IdleTask EXCEPT !.op = "load", !.pc = "ld_sent"]]
    /\ nextTask' = nextTask + 1
    /\ UNCHANGED <<impl, microq, subVars, busVars, pushVars, toggleVars,
                   timeVars, autoVars, pathVars>>

\* The backend reads the stored flag, or fails.
BackendLoad(t, ok) ==
    /\ tasks[t].pc = "ld_sent"
    /\ tasks' = [tasks EXCEPT ![t].pc = "ld_resp",
                              ![t].res = IF ok THEN "ok" ELSE "err",
                              ![t].arg = IF ok THEN persisted ELSE FALSE]
    /\ UNCHANGED <<impl, nextTask, microq, subVars, busVars, pushVars,
                   toggleVars, timeVars, autoVars, pathVars>>

\* What loadSettings returns from its catch block: the block sets the default
\* and falls off the end of the function.
LoadFailureReturn == "undefined"

\* loadSettings resumes after its invoke.  Resolved: the flag is stored and,
\* when it is true, startListening() is called (not awaited).  Rejected: the
\* error is logged and the flag is set to the default, true.
LoadResponse(t) ==
    /\ tasks[t].op = "load"
    /\ tasks[t].pc = "ld_resp"
    /\ microq = <<>>
    /\ IF tasks[t].res = "ok"
       THEN /\ dbMonitoringEnabled' = tasks[t].arg
            /\ IF tasks[t].arg
               THEN BeginCleanup(t, [tasks[t] EXCEPT !.phase = "start",
                                                     !.h0 = Handle,
                                                     !.outcome = "resolved",
                                                     !.ret = "true"],
                                 microq)
               ELSE /\ tasks' = [tasks EXCEPT ![t].pc = "done",
                                              ![t].outcome = "resolved",
                                              ![t].ret = "false"]
                    /\ UNCHANGED <<unlistenCalls, microq>>
       ELSE /\ dbMonitoringEnabled' = TRUE
            /\ tasks' = [tasks EXCEPT ![t].pc = "done",
                                      ![t].outcome = "resolved",
                                      ![t].ret = LoadFailureReturn]
            /\ UNCHANGED <<unlistenCalls, microq>>
    /\ UNCHANGED <<impl, nextTask, channel, nextReg, globalUnlistenFn,
                   unlistenFn, isListening, busVars, pushVars, persisted,
                   isDbMonitoringEnabled, messageType, timeVars, autoVars,
                   pathVars>>

\* loadCurrentSettings() of the settings dialog:
\* invoke('is_db_monitoring_enabled') is sent.
CallLoadCurrentSettings ==
    /\ impl = "dialog"
    /\ nextTask <= MaxTasks
    /\ tasks' = [tasks EXCEPT ![nextTask] =
                    [IdleTask EXCEPT !.op = "dialogLoad", !.pc = "ld_sent"]]
    /\ nextTask' = nextTask + 1
    /\ UNCHANGED <<impl, microq, subVars, busVars, pushVars, toggleVars,
                   timeVars, autoVars, pathVars>>

\* loadCurrentSettings resumes after its invoke: the loaded flag, or the
\* default true when the invoke was rejected; the function returns nothing.
DialogLoadResponse(t) ==
    /\ tasks[t].op = "dialogLoad"
    /\ tasks[t].pc = "ld_resp"
    /\ microq = <<>>
    /\ isDbMonitoringEnabled' = IF tasks[t].res = "ok" THEN tasks[t].arg
                                                        ELSE TRUE
    /\ tasks' = [tasks EXCEPT ![t].pc = "done", ![t].outcome = "resolved",
                              ![t].ret = "undefined"]
    /\ UNCHANGED <<impl, nextTask, microq, subVars, busVars, pushVars,
                   persisted, dbMonitoringEnabled, messageType, timeVars,
                   autoVars, pathVars>>

\* ------------------------------------------------ useAutoDatabaseListener
\* The dependency array of the effect: [isAutoRefreshEnabled, isInitialized].
CurrentDeps == <<isAutoRefreshEnabled, isInitialized>>

\* manageListening(), synchronous part, with the values its closure captured:
\* the first run sends invoke('start_database_monitoring'); later runs call
\* startListening or stopListening, whose synchronous part is cleanup().
ManageRec ==
    IF ~isInitialized
    THEN [IdleTask EXCEPT !.op = "manage", !.pc = "arm_wait",
                          !.arg = isAutoRefreshEnabled, !.arm = "sent"]
    ELSE [NewTask("manage",
                  IF isAutoRefreshEnabled THEN "start" ELSE "stop", Handle)
            EXCEPT !.pc = CleanupPc, !.reg = Handle,
                   !.arg = isAutoRefreshEnabled]

\* The component mounts; its effect runs manageListening().
Mount ==
    /\ impl = "hook"
    /\ mounted = "no"
    /\ microq = <<>>
    /\ nextTask <= MaxTasks + 1
    /\ mounted' = "yes"
    /\ effectDeps' = CurrentDeps
    /\ tasks' = [tasks EXCEPT ![nextTask] = ManageRec]
    /\ nextTask' = nextTask + 1
    /\ UNCHANGED <<impl, microq, subVars, busVars, pushVars, toggleVars,
                   timeVars, isInitialized, isAutoRefreshEnabled,
                   visibilityLog, pathVars>>

\* invoke('start_database_monitoring') settled (a rejection is caught and
\* logged): setIsInitialized(true), then startListening() or stopListening().
ArmSettled(t, ok) ==
    /\ tasks[t].pc = "arm_wait"
    /\ microq = <<>>
    /\ isInitialized' = IF mounted = "yes" THEN TRUE ELSE isInitialized
    /\ BeginCleanup(t, [tasks[t] EXCEPT
                            !.phase = IF tasks[t].arg THEN "start" ELSE "stop",
                            !.h0 = Handle,
                            !.arm = IF ok THEN "ok" ELSE "caught"],
                    microq)
    /\ UNCHANGED <<impl, nextTask, channel, nextReg, globalUnlistenFn,
                   unlistenFn, isListening, busVars, pushVars, toggleVars,
                   timeVars, mounted, isAutoRefreshEnabled, effectDeps,
                   visibilityLog, pathVars>>

\* A dependency changed: React runs the cleanup of the previous effect,
\* stopListening(), and then the effect again, manageListening().
Rerender ==
    /\ impl = "hook"
    /\ mounted = "yes"
    /\ microq = <<>>
    /\ effectDeps # CurrentDeps
    /\ nextTask + 1 <= MaxTasks + 1
    /\ effectDeps' = CurrentDeps
    /\ tasks' = [tasks EXCEPT
                    ![nextTask] = [NewTask("stop", "stop", Handle)
                                     EXCEPT !.pc = CleanupPc, !.reg = Handle],
                    ![nextTask + 1] = ManageRec]
    /\ nextTask' = nextTask + 2
    /\ IF Handle # None
       THEN /\ unlistenCalls' =
                  [unlistenCalls EXCEPT
                      ![Handle] = @ + (IF isInitialized THEN 2 ELSE 1)]
            /\ microq' = microq
       ELSE /\ unlistenCalls' = unlistenCalls
            /\ microq' = IF isInitialized
                         THEN <<nextTask, nextTask + 1>>
                         ELSE <<nextTask>>
    /\ UNCHANGED <<impl, channel, nextReg, globalUnlistenFn, unlistenFn,
                   isListening, busVars, pushVars, toggleVars, timeVars,
                   mounted, isInitialized, isAutoRefreshEnabled,
                   visibilityLog, pathVars>>

\* The component unmounts: the effect's cleanup calls stopListening().
Unmount ==
    /\ impl = "hook"
    /\ mounted = "yes"
    /\ microq = <<>>
    /\ nextTask <= MaxTasks + 1
    /\ mounted' = "gone"
    /\ BeginCleanup(nextTask, NewTask("stop", "stop", Handle), microq)
    /\ nextTask' = nextTask + 1
    /\ UNCHANGED <<impl, channel, nextReg, globalUnlistenFn, unlistenFn,
                   isListening, busVars, pushVars, toggleVars, timeVars,
                   isInitialized, isAutoRefreshEnabled, effectDeps,
                   visibilityLog, pathVars>>

\* useDatabaseStore.setAutoRefreshEnabled(e)
SetAutoRefreshEnabled(e) ==
    /\ impl = "hook"
    /\ e # isAutoRefreshEnabled
    /\ isAutoRefreshEnabled' = e
    /\ UNCHANGED <<impl, subVars, taskVars, busVars, pushVars, toggleVars,
                   timeVars, mounted, isInitialized, effectDeps,
                   visibilityLog, pathVars>>

\* The message handleVisibilityChange logs: the event fires when
\* document.hidden flips, and the page starts visible.
NextVisibilityLog == IF visibilityLog = "hidden" THEN "visible" ELSE "hidden"

VisibilityChangeSuspends ==
    /\ impl = "hook"
    /\ mounted = "yes"
    /\ nextTask <= MaxTasks + 1
    /\ visibilityLog' = NextVisibilityLog
    /\ BeginCleanup(nextTask,
                    IF NextVisibilityLog = "hidden"
                    THEN NewTask("stop", "stop", Handle)
                    ELSE NewTask("start", "start", Handle),
                    microq)
    /\ nextTask' = nextTask + 1
    /\ UNCHANGED <<impl, channel, nextReg, globalUnlistenFn, unlistenFn,
                   isListening, busVars, pushVars, toggleVars, timeVars,
                   mounted, isInitialized, isAutoRefreshEnabled, effectDeps,
                   pathVars>>

\* A visibilitychange event of the document while the component is mounted:
\* handleVisibilityChange logs one of its two messages.
VisibilityChange ==
    /\ impl = "hook"
    /\ mounted = "yes"
    /\ visibilityLog' = NextVisibilityLog
    /\ UNCHANGED <<impl, subVars, taskVars, busVars, pushVars, toggleVars,
                   timeVars, mounted, isInitialized, isAutoRefreshEnabled,
                   effectDeps, pathVars>>

\* ----------------------------------------------------------- path dialogs
\* "pathDialog" is AntigravityPathDialog, "settingsDialog" is SettingsDialog.
\* Everything outside the dialog is left alone by its handlers.
PathFrame ==
    UNCHANGED <<impl, subVars, taskVars, busVars, pushVars, toggleVars,
                timeVars, autoVars>>

\* disabled= of the two browse buttons.
BrowseEnabled(k) ==
    IF impl = "pathDialog" THEN ~pathValidating[k] /\ ~isSaving
                           ELSE ~isSaving

\* hasChanges of SettingsDialog.
HasChanges ==
    \E k \in Kinds : pathOf[k] # None /\ pathValid[k]

\* disabled= of the save button: !canSave, or !hasChanges || isSaving.
SaveEnabled ==
    IF impl = "pathDialog" THEN pathValid["data"] /\ ~isSaving
                           ELSE HasChanges /\ ~isSaving

\* handleBrowseDataPath / handleBrowseExecPath up to the await of the
\* validation: the user picks p in the file dialog, the path is stored (the
\* valid flag keeps its old value) and the validation call is sent.
Browse(k, p) ==
    /\ impl \in {"pathDialog", "settingsDialog"}
    /\ BrowseEnabled(k)
    /\ browses < MaxBrowses
    /\ browses' = browses + 1
    /\ pathOf' = [pathOf EXCEPT ![k] = p]
    /\ pathValidating' = IF impl = "pathDialog"
                         THEN [pathValidating EXCEPT ![k] = TRUE]
                         ELSE pathValidating
    /\ validations' = validations \cup {[kind |-> k, path |-> p]}
    /\ UNCHANGED <<pathValid, isSaving, saveJob, saved, validatedTrue,
                   selected>>
    /\ PathFrame

\* The validation of v.path returned: the browse handler stores the result.
ValidateDone(v) ==
    /\ v \in validations
    /\ validations' = validations \ {v}
    /\ pathValid' = [pathValid EXCEPT ![v.kind] = (v.path \in ValidPaths)]
    /\ pathValidating' = IF impl = "pathDialog"
                         THEN [pathValidating EXCEPT ![v.kind] = FALSE]
                         ELSE pathValidating
    /\ validatedTrue' = IF v.path \in ValidPaths
                        THEN [validatedTrue EXCEPT ![v.kind] = @ \cup {v.path}]
                        ELSE validatedTrue
    /\ UNCHANGED <<pathOf, isSaving, saveJob, saved, selected, browses>>
    /\ PathFrame

\* The values handleSave will pass to the two save calls, read from the state
\* of the render whose button was clicked.
CapturedPath(k) == IF pathOf[k] # None /\ pathValid[k] THEN pathOf[k] ELSE None

\* handleSave up to its first await.  The setup dialog requires a data path;
\* the settings dialog saves whichever of the two has changed.
ClickSave ==
    /\ impl \in {"pathDialog", "settingsDialog"}
    /\ SaveEnabled
    /\ IF impl = "pathDialog" /\ CapturedPath("data") = None
       THEN UNCHANGED <<isSaving, saveJob>>
       ELSE /\ isSaving' = TRUE
            /\ saveJob' = [pc |-> IF CapturedPath("data") # None
                                  THEN "data_wait" ELSE "exec_wait",
                           data |-> CapturedPath("data"),
                           exec |-> CapturedPath("exec")]
    /\ UNCHANGED <<pathOf, pathValid, pathValidating, validations, saved,
                   validatedTrue, selected, browses>>
    /\ PathFrame

\* savePath / saveExecutable settled.  Resolved: the backend has stored the
\* path; handleSave goes on to the executable path, or finishes and calls
\* onPathSelected (the settings dialog: onClose, after a message).  Rejected:
\* the catch block shows the error and nothing more is saved.
SaveSettled(ok) ==
    /\ saveJob.pc \in {"data_wait", "exec_wait"}
    /\ LET k == IF saveJob.pc = "data_wait" THEN "data" ELSE "exec"
           more == saveJob.pc = "data_wait" /\ saveJob.exec # None
       IN /\ saved' = IF ok THEN [saved EXCEPT ![k] = @ \cup {saveJob[k]}]
                           ELSE saved
          /\ saveJob' = IF ok /\ more
                        THEN [saveJob EXCEPT !.pc = "exec_wait"]
                        ELSE IdleJob
          /\ isSaving' = (ok /\ more)
          /\ selected' = (selected \/ (ok /\ ~more))
    /\ UNCHANGED <<pathOf, pathValid, pathValidating, validations,
                   validatedTrue, browses>>
    /\ PathFrame

\* ------------------------------------------------------- refresh consumer
ArmTimerDebounced(ts) == <<now + DelayTicks>>

\* setTimeout(resolve, 300): one more pending timer, none is cancelled.
ArmTimer(ts) == Append(ts, now + DelayTicks)

\* The hook's handleDatabaseChange is invoked with a notification: it arms
\* setTimeout(resolve, 300) and awaits it.
HandleDatabaseChange ==
    /\ impl = "hook"
    /\ Len(notifTimes) < MaxNotifs
    /\ notifTimes' = Append(notifTimes, now)
    /\ timers' = ArmTimer(timers)
    /\ UNCHANGED <<impl, subVars, taskVars, busVars, pushVars, toggleVars,
                   now, refreshTimes, autoVars, pathVars>>

\* The backend pushes a notification to the hook's handler, which is invoked
\* through a live registration of the channel.
ChannelNotify ==
    /\ channel # {}
    /\ microq = <<>>
    /\ HandleDatabaseChange

\* A timer expires: the handler resumes and calls actualRefreshBackupList().
TimerFire ==
    /\ timers # <<>>
    /\ Head(timers) <= now
    /\ timers' = Tail(timers)
    /\ refreshTimes' = Append(refreshTimes, now)
    /\ UNCHANGED <<impl, subVars, taskVars, busVars, pushVars, toggleVars,
                   now, notifTimes, autoVars, pathVars>>

\* 50 ms pass; an expired timer runs before time moves on.
Tick ==
    /\ now < MaxTime
    /\ IF timers = <<>> THEN TRUE ELSE Head(timers) > now
    /\ now' = now + 1
    /\ UNCHANGED <<impl, subVars, taskVars, busVars, pushVars, toggleVars,
                   timers, notifTimes, refreshTimes, autoVars, pathVars>>

\* ------------------------------------------------------------------- init
\* The state after the modules are loaded: no registration, no call made.
Constructed ==
    /\ channel = {}
    /\ nextReg = 1
    /\ unlistenCalls = <<>>
    /\ globalUnlistenFn = None
    /\ unlistenFn = None
    /\ isListening = FALSE
    /\ tasks = [t \in Slots |-> IdleTask]
    /\ nextTask = 1
    /\ microq = <<>>
    /\ lastEmit = <<>>
    /\ lastThrew = FALSE
    /\ handlerRuns = 0
    /\ lastSnapshot = <<>>
    /\ pushCount = 0
    /\ dbMonitoringEnabled = TRUE
    /\ isDbMonitoringEnabled = TRUE
    /\ messageType = "info"
    /\ now = 0
    /\ timers = <<>>
    /\ notifTimes = <<>>
    /\ refreshTimes = <<>>
    /\ mounted = "no"
    /\ isInitialized = FALSE
    /\ isAutoRefreshEnabled = TRUE
    /\ effectDeps = <<>>
    /\ visibilityLog = "none"
    /\ pathOf = [k \in Kinds |-> None]
    /\ pathValid = [k \in Kinds |-> FALSE]
    /\ pathValidating = [k \in Kinds |-> FALSE]
    /\ isSaving = FALSE
    /\ validations = {}
    /\ saveJob = IdleJob
    /\ saved = [k \in Kinds |-> {}]
    /\ validatedTrue = [k \in Kinds |-> {}]
    /\ selected = FALSE
    /\ browses = 0

\* Subscription lifecycle of either listener implementation.
Init ==
    /\ impl \in {"store", "hook"}
    /\ Constructed
    /\ listeners = <<>>
    /\ handles = <<>>
    /\ persisted = TRUE

Lifecycle ==
    \/ CallStartListening
    \/ CallStopListening
    \/ CallRestartListening
    \/ StartAfterCleanup
    \/ StopAfterCleanup
    \/ RestartAfterStop
    \/ \E t \in 1..MaxTasks : UnlistenResolve(t)
    \/ \E t \in 1..MaxTasks : UnlistenReject(t)
    \/ \E t \in 1..MaxTasks : ListenResolve(t)
    \/ \E t \in 1..MaxTasks : ListenReject(t)

Next == Lifecycle

Spec == Init /\ [][Next]_vars

\* Lifecycle with two consumers registered at start-up and backend pushes.
InitFanout ==
    /\ impl \in {"store", "hook"}
    /\ Constructed
    /\ listeners = <<1, 2>>
    /\ handles = <<[cb |-> 1, unregCalls |-> 0], [cb |-> 2, unregCalls |-> 0]>>
    /\ persisted = TRUE

NextFanout ==
    \/ Lifecycle
    \/ BackendPush({})

SpecFanout == InitFanout /\ [][NextFanout]_vars

\* The event bus of the store, behind one live registration (the state a
\* completed startListening leaves).
InitBus ==
    /\ impl = "store"
    /\ Constructed
    /\ listeners = <<>>
    /\ handles = <<>>
    /\ persisted = TRUE

NextBus ==
    \/ CallStartListening
    \/ StartAfterCleanup
    \/ \E t \in 1..MaxTasks : ListenResolve(t)
    \/ \E cb \in Callbacks : AddListener(cb)
    \/ \E h \in 1..MaxHandles : Unregister(h)
    \/ \E throwers \in SUBSET Callbacks : BackendPush(throwers)

SpecBus == InitBus /\ [][NextBus]_vars

\* The event bus of the store with callbacks that use the bus re-entrantly.
InitReentrant ==
    /\ impl = "store"
    /\ Constructed
    /\ listeners = <<>>
    /\ handles = <<>>
    /\ persisted = TRUE

NextReentrant ==
    \/ CallStartListening
    \/ StartAfterCleanup
    \/ \E t \in 1..MaxTasks : ListenResolve(t)
    \/ \E cb \in Callbacks : AddListener(cb)
    \/ \E h \in 1..MaxHandles : Unregister(h)
    \/ \E throwers \in SUBSET Callbacks, script \in [Callbacks -> ReentrantOps] :
            ReentrantPush(throwers, script)

SpecReentrant == InitReentrant /\ [][NextReentrant]_vars

\* The store as a whole: subscription calls, toggle calls and the consumers
\* of the event bus side by side.
InitFrame ==
    /\ impl = "store"
    /\ Constructed
    /\ listeners = <<>>
    /\ handles = <<>>
    /\ persisted \in BOOLEAN

NextFrame ==
    \/ (nextTask <= FrameCalls /\ CallStartListening)
    \/ (nextTask <= FrameCalls /\ CallStopListening)
    \/ \E e \in BOOLEAN :
            (nextTask <= FrameCalls /\ CallSetDbMonitoringEnabled(e))
    \/ (nextTask <= FrameCalls /\ CallLoadSettings)
    \/ \E t \in 1..MaxTasks, ok \in BOOLEAN : BackendSave(t, ok)
    \/ \E t \in 1..MaxTasks, ok \in BOOLEAN : BackendLoad(t, ok)
    \/ \E t \in 1..MaxTasks : SaveResponse(t)
    \/ \E t \in 1..MaxTasks : LoadResponse(t)
    \/ StartAfterCleanup
    \/ StopAfterCleanup
    \/ \E t \in 1..MaxTasks : UnlistenResolve(t)
    \/ \E t \in 1..MaxTasks : UnlistenReject(t)
    \/ \E t \in 1..MaxTasks : ListenResolve(t)
    \/ \E t \in 1..MaxTasks : ListenReject(t)
    \/ \E cb \in Callbacks : (Len(handles) < FrameHandles /\ AddListener(cb))
    \/ \E h \in 1..MaxHandles : Unregister(h)

SpecFrame == InitFrame /\ [][NextFrame]_vars

\* The toggle: the store's setDbMonitoringEnabled / loadSettings, or the
\* settings dialog's handleDbMonitoringToggle.
InitToggle ==
    /\ impl \in {"store", "dialog"}
    /\ Constructed
    /\ listeners = <<>>
    /\ handles = <<>>
    /\ persisted \in BOOLEAN

NextToggle ==
    \/ \E e \in BOOLEAN : CallSetDbMonitoringEnabled(e)
    \/ CallToggleDbMonitoring
    \/ \E e \in BOOLEAN : CallHandleDbMonitoringToggle(e)
    \/ CallLoadSettings
    \/ CallLoadCurrentSettings
    \/ \E t \in 1..MaxTasks, ok \in BOOLEAN : BackendSave(t, ok)
    \/ \E t \in 1..MaxTasks, ok \in BOOLEAN : BackendLoad(t, ok)
    \/ \E t \in 1..MaxTasks : SaveResponse(t)
    \/ \E t \in 1..MaxTasks : DialogSaveResponse(t)
    \/ \E t \in 1..MaxTasks : LoadResponse(t)
    \/ \E t \in 1..MaxTasks : DialogLoadResponse(t)
    \/ StartAfterCleanup
    \/ StopAfterCleanup
    \/ \E t \in 1..MaxTasks : UnlistenResolve(t)
    \/ \E t \in 1..MaxTasks : UnlistenReject(t)
    \/ \E t \in 1..MaxTasks : ListenResolve(t)
    \/ \E t \in 1..MaxTasks : ListenReject(t)

SpecToggle == InitToggle /\ [][NextToggle]_vars

\* The component that uses useAutoDatabaseListener: mount, effect re-runs,
\* unmount, and the calls they make.
InitAuto ==
    /\ impl = "hook"
    /\ Constructed
    /\ listeners = <<>>
    /\ handles = <<>>
    /\ persisted = TRUE

NextAuto ==
    \/ Mount
    \/ Rerender
    \/ Unmount
    \/ VisibilityChange
    \/ \E e \in BOOLEAN : SetAutoRefreshEnabled(e)
    \/ \E t \in Slots, ok \in BOOLEAN : ArmSettled(t, ok)
    \/ StartAfterCleanup
    \/ StopAfterCleanup
    \/ \E t \in Slots : UnlistenResolve(t)
    \/ \E t \in Slots : UnlistenReject(t)
    \/ \E t \in Slots : ListenResolve(t)
    \/ \E t \in Slots : ListenReject(t)

SpecAuto == InitAuto /\ [][NextAuto]_vars

\* Starting the subscription together with the backend's arm call: the
\* store's startListening, and the first effect run of the hook's component.
InitArm ==
    /\ impl \in {"store", "hook"}
    /\ Constructed
    /\ listeners = <<>>
    /\ handles = <<>>
    /\ persisted = TRUE

NextArm ==
    \/ CallStartListening
    \/ Mount
    \/ \E t \in Slots, ok \in BOOLEAN : ArmSettled(t, ok)
    \/ StartAfterCleanup
    \/ \E t \in Slots : UnlistenResolve(t)
    \/ \E t \in Slots : ListenResolve(t)
    \/ \E t \in Slots : ListenReject(t)
    \/ \E t \in Slots : ArmResolve(t)
    \/ \E t \in Slots : ArmReject(t)

SpecArm == InitArm /\ [][NextArm]_vars

\* The component with its refresh consumer: notifications arrive through the
\* subscription the effect made, their delays run out, the view unmounts.
InitTeardown ==
    /\ impl = "hook"
    /\ Constructed
    /\ listeners = <<>>
    /\ handles = <<>>
    /\ persisted = TRUE

NextTeardown ==
    \/ Mount
    \/ Rerender
    \/ Unmount
    \/ \E t \in Slots, ok \in BOOLEAN : ArmSettled(t, ok)
    \/ StartAfterCleanup
    \/ StopAfterCleanup
    \/ \E t \in Slots : UnlistenResolve(t)
    \/ \E t \in Slots : ListenResolve(t)
    \/ ChannelNotify
    \/ TimerFire
    \/ Tick

SpecTeardown == InitTeardown /\ [][NextTeardown]_vars

\* The two path dialogs, freshly opened.
InitPath ==
    /\ impl \in {"pathDialog", "settingsDialog"}
    /\ Constructed
    /\ listeners = <<>>
    /\ handles = <<>>
    /\ persisted = TRUE

NextPath ==
    \/ \E k \in Kinds, p \in Paths : Browse(k, p)
    \/ \E v \in validations : ValidateDone(v)
    \/ ClickSave
    \/ \E ok \in BOOLEAN : SaveSettled(ok)

SpecPath == InitPath /\ [][NextPath]_vars

\* The refresh consumer of the hook and its timers.
InitDebounce ==
    /\ impl = "hook"
    /\ Constructed
    /\ listeners = <<>>
    /\ handles = <<>>
    /\ persisted = TRUE

NextDebounce ==
    \/ HandleDatabaseChange
    \/ TimerFire
    \/ Tick

SpecDebounce == InitDebounce /\ [][NextDebounce]_vars

\* ================================================================= claims
Count(s, x) == Cardinality({i \in 1..Len(s) : s[i] = x})

\* A step of the call in slot t.
Steps(t) == tasks'[t] # tasks[t]

\* C1 (as claimed): once no start/stop/restart call is in flight, at most one
\* registration is live on the channel.
C1_AtMostOneRegistration ==
    (InFlight = {}) => Cardinality(channel) <= 1

\* C2 (as claimed): one emit behind a live registration invokes every
\* callback of the listener array exactly once, in registration order.
C2_EveryCallbackOnceInOrder ==
    (pushCount > 0 /\ handlerRuns >= 1 /\ impl = "store")
        => lastEmit = lastSnapshot

\* C3 (as claimed): a callback that throws neither cuts the delivery to the
\* callbacks registered after it short nor escapes the channel handler.
C3_ThrowIsIsolated ==
    (pushCount > 0 /\ handlerRuns >= 1 /\ impl = "store")
        => /\ ~lastThrew
           /\ \A i \in 1..Len(lastSnapshot) : i <= Len(lastEmit)

\* C4 (as claimed): calling unsubscribe closures any number of times removes
\* only their own registration: for every callback function the listener
\* array holds one entry per closure that was never called.
C4_UnregisterTouchesOwnOnly ==
    \A cb \in Callbacks :
        Count(listeners, cb) =
            Cardinality({h \in 1..Len(handles) :
                            handles[h].cb = cb /\ handles[h].unregCalls = 0})

\* C5: every step of a stop made while the handle is none leaves the handle
\* none, the listening flag false and the channel as it was, awaits no
\* unlisten call, and the stop resolves.
C5_StopWhenStoppedIsNoOp ==
    [][\A t \in 1..MaxTasks :
        (Steps(t) /\ tasks'[t].phase = "stop" /\ tasks'[t].h0 = None)
            => /\ Handle = None /\ Handle' = None
               /\ ~isListening /\ ~isListening'
               /\ UNCHANGED <<channel, nextReg, unlistenCalls>>
               /\ tasks'[t].pc \in {"cl_ret", "mid", "done"}
               /\ tasks'[t].pc = "done" => tasks'[t].outcome = "resolved"]_vars

\* C5 witness: a stop called with no subscription has completed.
C5_Witness ==
    \E t \in 1..MaxTasks : /\ tasks[t].op = "stop"
                           /\ tasks[t].h0 = None
                           /\ tasks[t].pc = "done"

\* C6 (as claimed): a start made while a handle is stored changes neither the
\* handle nor the channel and calls no unlisten function.
C6_StartIsNoOp ==
    [][\A t \in 1..MaxTasks :
        (Steps(t) /\ tasks'[t].op = "start" /\ tasks'[t].h0 # None)
            => UNCHANGED <<globalUnlistenFn, unlistenFn, channel, nextReg,
                           unlistenCalls>>]_vars

\* C6 (amended): a start made while a handle is stored invokes that handle's
\* unlisten function and awaits it; and whenever a start's listen() resolves,
\* the stored handle becomes the newly created registration, which differs
\* from every handle stored before.
C6_StartReplacesSubscription ==
    [][\A t \in 1..MaxTasks :
        /\ (Steps(t) /\ tasks[t].pc \in {"idle", "mid"}
                     /\ tasks'[t].phase = "start" /\ Handle # None)
            => /\ tasks'[t].pc = "cl_wait"
               /\ tasks'[t].reg = Handle
               /\ unlistenCalls'[Handle] = unlistenCalls[Handle] + 1
        /\ (tasks[t].pc = "ls_wait" /\ tasks'[t].pc = "done"
                                    /\ nextReg' # nextReg)
            => /\ Handle' = nextReg
               /\ Handle' \notin channel /\ Handle' \in channel'
               /\ Handle' # Handle /\ Handle' # tasks[t].h0]_vars

\* C6 witness: a start called with a handle stored has completed and stored
\* a different one.
C6_Witness ==
    \E t \in 1..MaxTasks : /\ tasks[t].op = "start"
                           /\ tasks[t].h0 # None
                           /\ tasks[t].pc = "done"
                           /\ tasks[t].reg # None
                           /\ tasks[t].reg # tasks[t].h0
                           /\ Handle = tasks[t].reg

\* C7: when the save was rejected, the resuming call leaves the in-memory
\* flag (store and dialog) and the subscription alone, starts no stop or
\* start, and reports the error: the store's promise rejects, the dialog
\* shows an error message.
C7_FailedPersistChangesNothing ==
    [][\A t \in 1..MaxTasks :
        (tasks[t].pc = "sv_resp" /\ tasks[t].res = "err" /\ Steps(t))
            => /\ dbMonitoringEnabled' = dbMonitoringEnabled
               /\ isDbMonitoringEnabled' = isDbMonitoringEnabled
               /\ UNCHANGED <<subVars, microq, persisted>>
               /\ tasks'[t].pc = "done"
               /\ tasks'[t].phase = "none"
               /\ tasks[t].op = "set" => tasks'[t].outcome = "rejected"
               /\ tasks[t].op = "dialog" => messageType' = "error"]_vars

\* C7 witness: a setDbMonitoringEnabled whose save failed has finished, asked
\* for the value the flag does not have.
C7_Witness ==
    \E t \in 1..MaxTasks : /\ tasks[t].op = "set"
                           /\ tasks[t].res = "err"
                           /\ tasks[t].pc = "done"
                           /\ tasks[t].arg # dbMonitoringEnabled

\* C8 (as claimed): setEnabled(false) then an overlapping setEnabled(true),
\* both saved successfully and nothing left in flight, end with the flag
\* true and a live subscription.
C8_RequestOrder ==
    (/\ impl = "store"
     /\ InFlight = {}
     /\ \E a, b \in 1..MaxTasks :
            /\ a < b
            /\ tasks[a].op = "set" /\ ~tasks[a].arg /\ tasks[a].res = "ok"
            /\ tasks[b].op = "set" /\ tasks[b].arg /\ tasks[b].res = "ok"
            /\ tasks[b].ovl
            /\ \A c \in 1..MaxTasks :
                   tasks[c].op = "set" => c \in {a, b}
     /\ \A c \in 1..MaxTasks : tasks[c].res # "err")
        => /\ dbMonitoringEnabled
           /\ Handle # None
           /\ Handle \in channel

\* C9 (as claimed): once no timer is pending, a burst of notifications that
\* arrived within 50 ms has caused exactly one refresh.
C9_BurstRefreshesOnce ==
    (/\ timers = <<>>
     /\ Len(notifTimes) >= 2
     /\ notifTimes[Len(notifTimes)] - notifTimes[1] <= 1)
        => Len(refreshTimes) = 1

\* C9 (amended): every notification causes its own refresh, exactly one
\* delay after it: the i-th refresh is one delay after the i-th notification,
\* and each notification not yet refreshed has its own pending timer.
C9_OneRefreshPerNotification ==
    /\ Len(refreshTimes) + Len(timers) = Len(notifTimes)
    /\ \A i \in 1..Len(refreshTimes) :
           refreshTimes[i] = notifTimes[i] + DelayTicks
    /\ \A i \in 1..Len(timers) :
           /\ timers[i] = notifTimes[Len(refreshTimes) + i] + DelayTicks
           /\ timers[i] >= now

\* C9 witness: five notifications within 50 ms, five refreshes.
C9_Witness ==
    /\ Len(notifTimes) >= 5
    /\ notifTimes[5] - notifTimes[1] <= 1
    /\ Len(refreshTimes) >= 5

\* C10 (as claimed): a pushed notification that is received runs one channel
\* handler, which invokes each registered consumer callback exactly once.
C10_OncePerNotification ==
    (pushCount > 0 /\ handlerRuns >= 1)
        => /\ handlerRuns = 1
           /\ impl = "store" =>
                \A cb \in Range(lastSnapshot) :
                    handlerRuns * Count(lastEmit, cb) = 1

\* No call has met a rejected listen or unlisten, and every save and load
\* the backend answered succeeded: the backend is healthy.
Healthy ==
    \A t \in Slots : /\ ~tasks[t].fault
                     /\ tasks[t].res # "err"

\* C11 (as claimed): once setDbMonitoringEnabled(true), the last call issued,
\* has completed with its save succeeding and the backend healthy, a
\* subscription is stored and its registration is live.
C11_EnableStartsSubscription ==
    \A t \in 1..MaxTasks :
        (/\ impl = "store"
         /\ nextTask = t + 1
         /\ tasks[t].op = "set" /\ tasks[t].arg
         /\ tasks[t].res = "ok" /\ tasks[t].pc = "done"
         /\ InFlight = {}
         /\ Healthy)
            => /\ Handle # None
               /\ Handle \in channel

\* C12 (as claimed): with a healthy backend, after loadSettings and
\* setDbMonitoringEnabled calls and with nothing left in flight, the flag is
\* true exactly when a subscription is stored.
C12_FlagMatchesSubscription ==
    (/\ impl = "store"
     /\ nextTask > 1
     /\ InFlight = {}
     /\ Healthy)
        => (dbMonitoringEnabled <=> Handle # None)

\* The in-memory flag of the running implementation.
Enabled == IF impl = "store" THEN dbMonitoringEnabled
                             ELSE isDbMonitoringEnabled

\* C13 (as claimed): with no save call in flight, after setEnabled calls of
\* which one at least was persisted (and no load), the in-memory flag equals
\* the flag the backend holds, whatever the order the saves completed in.
C13_FlagIsLastPersisted ==
    (/\ \A t \in 1..MaxTasks : tasks[t].op \in {"none", "set", "dialog"}
     /\ \A t \in 1..MaxTasks : tasks[t].pc \notin {"sv_sent", "sv_resp"}
     /\ \E t \in 1..MaxTasks : tasks[t].res = "ok")
        => Enabled = persisted

\* C14 (as claimed): a loadSettings whose backend read failed does not raise,
\* returns true and leaves the flag at true.
C14_FailedLoadReturnsTrue ==
    [][\A t \in 1..MaxTasks :
        (/\ tasks[t].op = "load"
         /\ tasks[t].pc = "ld_resp"
         /\ tasks[t].res = "err"
         /\ Steps(t))
            => /\ tasks'[t].outcome = "resolved"
               /\ tasks'[t].ret = "true"
               /\ dbMonitoringEnabled' = TRUE]_vars

\* C16 (as claimed): a setDbMonitoringEnabled(true) whose save succeeded and
\* that ends with the flag true and no subscription stored reports a warning,
\* an outcome that is neither the plain success nor the rejection.
C16_SavedButNotLiveWarns ==
    [][\A t \in 1..MaxTasks :
        (/\ tasks[t].op = "set" /\ tasks[t].arg
         /\ tasks[t].pc = "sv_resp"
         /\ tasks[t].res = "ok"
         /\ Steps(t)
         /\ tasks'[t].pc = "done"
         /\ Handle' = None)
            => /\ dbMonitoringEnabled'
               /\ tasks'[t].outcome = "warning"]_vars

\* C15 (as claimed): after the component has unmounted and every start and
\* stop has completed, with no backend failure, no registration is live on
\* the channel and isListening is false.
C15_UnmountLeavesNothing ==
    (/\ mounted = "gone"
     /\ InFlight = {}
     /\ Healthy)
        => /\ channel = {}
           /\ ~isListening

\* C17 (as claimed): when the listen() of a start is rejected, and no
\* unlisten call has failed, the state right afterwards is "not subscribed":
\* no handle is stored and the listening flag is false.
C17_FailedStartLeavesUnsubscribed ==
    [][\A t \in 1..MaxTasks :
        (/\ tasks[t].pc = "ls_wait"
         /\ Steps(t)
         /\ tasks'[t].lres = "err"
         /\ \A u \in 1..MaxTasks : tasks[u].ures # "err")
            => /\ Handle' = None
               /\ ~isListening']_vars

\* C18 (as claimed): a start whose listen() was rejected settles with an
\* outcome other than the one of a successful start.
C18_FailedStartIsSurfaced ==
    \A t \in 1..MaxTasks :
        (tasks[t].lres = "err" /\ tasks[t].pc = "done")
            => tasks[t].outcome # "resolved"

\* C18 (amended): when the listen() of a start is rejected, the error is
\* caught and logged: the call's promise resolves as it does on success, it
\* stores no handle and leaves handle and channel as they were, and the hook
\* sets its listening flag to false.
C18_FailedStartResolves ==
    [][\A t \in 1..MaxTasks :
        (tasks[t].pc = "ls_wait" /\ Steps(t) /\ tasks'[t].lres = "err")
            => /\ tasks'[t].pc = "done"
               /\ tasks'[t].outcome = "resolved"
               /\ tasks'[t].reg = None
               /\ Handle' = Handle
               /\ UNCHANGED <<channel, nextReg>>
               /\ impl = "hook" => ~isListening']_vars

\* C18 witness: a start whose listen() was rejected has completed.
C18_Witness ==
    \E t \in 1..MaxTasks : /\ tasks[t].op = "start"
                           /\ tasks[t].lres = "err"
                           /\ tasks[t].pc = "done"

\* C19 (as claimed): when the unlisten call awaited by cleanup() is rejected,
\* the stored handle is cleared to none.
C19_FailedUnlistenClearsHandle ==
    [][\A t \in 1..MaxTasks :
        (tasks[t].pc = "cl_wait" /\ Steps(t) /\ tasks'[t].ures = "err")
            => Handle' = None]_vars

\* C19 (amended): when the unlisten call awaited by cleanup() is rejected,
\* the failure is logged and cleanup() returns leaving the stored handle, the
\* listening flag and the channel as they were; the stop or start that called
\* cleanup() then goes on.
C19_FailedUnlistenKeepsHandle ==
    [][\A t \in 1..MaxTasks :
        (tasks[t].pc = "cl_wait" /\ Steps(t) /\ tasks'[t].ures = "err")
            => /\ Handle' = Handle
               /\ isListening' = isListening
               /\ channel' = channel
               /\ tasks'[t].pc = "cl_ret"
               /\ microq' = <<t>>]_vars

\* C19 witness: a stop whose unlisten call was rejected has completed and the
\* handle it tried to unregister is still stored and still live.
C19_Witness ==
    \E t \in 1..MaxTasks : /\ tasks[t].op = "stop"
                           /\ tasks[t].ures = "err"
                           /\ tasks[t].pc = "done"
                           /\ tasks[t].reg # None
                           /\ Handle = tasks[t].reg
                           /\ Handle \in channel

\* C20 (as claimed): whenever a step of a stop takes the stored handle from a
\* registration to none, that registration is no longer live.
C20_ClearedHandleIsDead ==
    [][\A t \in 1..MaxTasks :
        (/\ Steps(t)
         /\ tasks[t].phase = "stop"
         /\ Handle # None
         /\ Handle' = None)
            => Handle \notin channel']_vars

\* C21 (as claimed): start, stop and restart are serialized: at most one of
\* them is between its first read of the stored handle and its last write.
C21_OneCallAtATime ==
    Cardinality({t \in 1..MaxTasks :
                    tasks[t].pc \in {"cl_wait", "cl_ret", "mid", "ls_wait"}})
        <= 1

\* C22 (as claimed): when the arm call start_database_monitoring fails, the
\* stored handle and the channel are left as they are (the start goes on or
\* has completed), the error is caught, and the promise of the start settles
\* as it does when the arm call succeeds.
C22_ArmFailureIsContained ==
    [][\A t \in Slots :
        (/\ Steps(t)
         /\ tasks[t].arm = "sent"
         /\ tasks'[t].arm \in {"caught", "unhandled"})
            => /\ Handle' = Handle
               /\ channel' = channel
               /\ tasks'[t].outcome = tasks[t].outcome
               /\ tasks'[t].arm = "caught"]_vars

\* C23 (as claimed): when consumer callbacks register or unregister during a
\* publish made through one live registration, every consumer registered when
\* the publish began is invoked exactly once, in order.
C23_SnapshotDelivery ==
    [][(/\ pushCount' # pushCount
        /\ Cardinality(channel) = 1
        /\ <<listeners, handles>>' # <<listeners, handles>>)
            => lastEmit' = listeners]_vars

\* The same with no callback throwing during the publish.
C23_SnapshotDeliveryNoThrow ==
    [][(/\ pushCount' # pushCount
        /\ Cardinality(channel) = 1
        /\ ~lastThrew'
        /\ <<listeners, handles>>' # <<listeners, handles>>)
            => lastEmit' = listeners]_vars

\* C24: every step of a start, stop, cleanup, loadSettings or
\* setDbMonitoringEnabled call leaves the listener array of the event bus and
\* the unsubscribe closures as they were; only addListener and the closures
\* it returns change them.
C24_BusFrame ==
    [][(\E t \in Slots : Steps(t)) => UNCHANGED <<listeners, handles>>]_vars

\* C24 witness: with a consumer registered, a loadSettings has started the
\* subscription and a setDbMonitoringEnabled(false) has stopped it, its
\* cleanup having unregistered the handle.
C24_Witness ==
    /\ listeners # <<>>
    /\ \E a, b \in 1..MaxTasks :
        /\ tasks[a].op = "load" /\ tasks[a].lres = "ok" /\ tasks[a].pc = "done"
        /\ tasks[b].op = "set" /\ tasks[b].ures = "ok" /\ tasks[b].pc = "done"
        /\ tasks[b].reg = tasks[a].reg

\* C25 (as claimed): once the owning view has unmounted and its handler has
\* been unregistered from the channel, a reaction that was waiting out its
\* delay makes no refresh call when it fires.
C25_NoRefreshAfterUnmount ==
    [][(mounted = "gone" /\ channel = {} /\ InFlight = {})
            => refreshTimes' = refreshTimes]_vars

\* C26: a page-visibility change only logs: it leaves the stored handle, the
\* channel, the listening flag, the enabled flags and every call in flight
\* as they were, and starts no call.
C26_VisibilityOnlyLogs ==
    [][visibilityLog' # visibilityLog
        => UNCHANGED <<subVars, taskVars, toggleVars, isAutoRefreshEnabled,
                       isInitialized, effectDeps, mounted>>]_vars

\* C26 witness: the page was hidden and shown again while the subscription
\* of the mounted component was live, and it still is.
C26_Witness ==
    /\ visibilityLog = "visible"
    /\ mounted = "yes"
    /\ isListening
    /\ Handle # None
    /\ Handle \in channel

\* C27 (as claimed): a start, then a stop racing a second start, with no
\* backend failure: once nothing is in flight and the first registration is
\* gone, every live channel registration is the one the stored handle
\* refers to.
C27_NoLostRegistration ==
    (/\ InFlight = {}
     /\ Healthy
     /\ nextTask = 4
     /\ tasks[1].op = "start" /\ tasks[2].op = "stop" /\ tasks[3].op = "start"
     /\ tasks[2].h0 # None /\ tasks[3].h0 # None
     /\ tasks[2].h0 \notin channel)
        => \A r \in channel : r = Handle

\* C28 (as claimed): in the hook's store, with no call in flight, after a
\* start has completed and a later stop has met a failed unlisten call,
\* isListening is true exactly when unlistenFn is not null.
C28_FlagMatchesHandle ==
    (/\ impl = "hook"
     /\ InFlight = {}
     /\ nextTask = 3
     /\ tasks[2].h0 # None
     /\ tasks[2].ures = "err")
        => (isListening <=> unlistenFn # None)

\* C29 (as claimed): the unlisten function of a registration is invoked at
\* most once, whatever start, stop and cleanup calls interleave.
C29_UnlistenAtMostOnce ==
    Healthy => \A r \in 1..Len(unlistenCalls) : unlistenCalls[r] <= 1

\* C30 (as claimed): every path persisted by savePath or saveExecutable is
\* one for which the validation has returned true, and the setup dialog has
\* called onPathSelected only after a savePath succeeded.
C30_SavedPathsWereValidated ==
    /\ \A k \in Kinds : saved[k] \subseteq validatedTrue[k]
    /\ (impl = "pathDialog" /\ selected) => saved["data"] # {}

\* The second part alone: onPathSelected only after a successful savePath.
C30_SelectedAfterSave ==
    (impl = "pathDialog" /\ selected) => saved["data"] # {}

====
